---- MODULE Spec2Model ----
(***************************************************************************)
(* State-machine model of the CSV to H3 tool (src/src/App.js): the React   *)
(* state of the App component, its event handlers (file import, point      *)
(* removal, resolution / coordinate / aggregation controls, the two        *)
(* exports) and the pure functions they call.                              *)
(*                                                                         *)
(* Conventions                                                             *)
(*   - a JavaScript string is a tuple of one-character strings;            *)
(*   - a JavaScript number is a record [k, n, d]: k = "NaN", k = "inf"     *)
(*     (n = 1 or -1 is the sign) or k = "fin" (the rational n/d in lowest  *)
(*     terms, d > 0); the sampled values are exactly representable, so     *)
(*     sums and comparisons are those of the code, and a quotient stands   *)
(*     for the double nearest to it;                                       *)
(*   - a row (a JavaScript object) is a function from column names to      *)
(*     strings; an array is a sequence, with the 0-based index of the code *)
(*     kept in the handlers' parameters.                                   *)
(***************************************************************************)
EXTENDS Integers, Sequences, FiniteSets, TLC

VARIABLES csvData, h3Resolution, includeCoordinates, mapCenter,
          numericColumns, aggregationSettings, showAggregationSettings,
          alertMsg, exportData, crashed

vars == <<csvData, h3Resolution, includeCoordinates, mapCenter,
          numericColumns, aggregationSettings, showAggregationSettings,
          alertMsg, exportData, crashed>>

(***************************************************************************)
(* Bounds of the model.                                                    *)
(***************************************************************************)
\* longest imported file, in rows
MaxFileRows == 2
\* largest dataset the export specification starts from, in rows
MaxRows == 3

(***************************************************************************)
(* JavaScript numbers.                                                     *)
(***************************************************************************)
NaN == [k |-> "NaN", n |-> 0, d |-> 1]

Infinity == [k |-> "inf", n |-> 1, d |-> 1]

NegInfinity == [k |-> "inf", n |-> -1, d |-> 1]

Abs(x) == IF x < 0 THEN -x ELSE x

Sign(x) == IF x < 0 THEN -1 ELSE IF x > 0 THEN 1 ELSE 0

RECURSIVE Gcd(_, _)
Gcd(a, b) == IF b = 0 THEN a ELSE Gcd(b, a % b)

\* the number n/d (d # 0) in lowest terms
Rat(n, d) ==
  LET g == Gcd(Abs(n), Abs(d))
      s == Sign(d)
  IN  [k |-> "fin", n |-> (s * n) \div g, d |-> Abs(d) \div g]

Num(i) == [k |-> "fin", n |-> i, d |-> 1]

isNaN(x) == x.k = "NaN"

isFinite(x) == x.k = "fin"

\* a + b
Add(a, b) ==
  IF isNaN(a) \/ isNaN(b) THEN NaN
  ELSE IF a.k = "inf" /\ b.k = "inf" THEN (IF a.n = b.n THEN a ELSE NaN)
  ELSE IF a.k = "inf" THEN a
  ELSE IF b.k = "inf" THEN b
  ELSE Rat(a.n * b.d + b.n * a.d, a.d * b.d)

\* a / b (the sign of a zero is not modelled)
Div(a, b) ==
  IF isNaN(a) \/ isNaN(b) THEN NaN
  ELSE IF a.k = "inf" /\ b.k = "inf" THEN NaN
  ELSE IF a.k = "inf"
    THEN [k |-> "inf", n |-> (IF b.n < 0 THEN -a.n ELSE a.n), d |-> 1]
  ELSE IF b.k = "inf" THEN Num(0)
  ELSE IF b.n = 0
    THEN (IF a.n = 0 THEN NaN ELSE [k |-> "inf", n |-> Sign(a.n), d |-> 1])
  ELSE Rat(a.n * b.d, a.d * b.n)

\* a < b, false when either is NaN
Lt(a, b) ==
  /\ ~isNaN(a)
  /\ ~isNaN(b)
  /\ IF a.k = "inf" THEN a.n = -1 /\ b # a
     ELSE IF b.k = "inf" THEN b.n = 1
     ELSE a.n * b.d < b.n * a.d

\* Math.max(...values): NaN when a value is NaN, -Infinity for no value
RECURSIVE MathMax(_)
MathMax(values) ==
  IF values = <<>> THEN NegInfinity
  ELSE LET m == MathMax(Tail(values))
           v == Head(values)
       IN  IF isNaN(v) \/ isNaN(m) THEN NaN ELSE IF Lt(m, v) THEN v ELSE m

\* Math.min(...values): NaN when a value is NaN, Infinity for no value
RECURSIVE MathMin(_)
MathMin(values) ==
  IF values = <<>> THEN Infinity
  ELSE LET m == MathMin(Tail(values))
           v == Head(values)
       IN  IF isNaN(v) \/ isNaN(m) THEN NaN ELSE IF Lt(v, m) THEN v ELSE m

(***************************************************************************)
(* JavaScript strings and the conversions between strings and numbers.     *)
(***************************************************************************)
Digits == <<"0", "1", "2", "3", "4", "5", "6", "7", "8", "9">>

isDigit(c) == \E i \in 1..10 : Digits[i] = c

DigitVal(c) == (CHOOSE i \in 1..10 : Digits[i] = c) - 1

isWhiteSpace(c) == c \in {" ", "\t", "\n", "\r"}

CharAt(s, i) == IF i >= 1 /\ i <= Len(s) THEN s[i] ELSE ""

\* the first index at or after i that holds no digit
RECURSIVE SkipDigits(_, _)
SkipDigits(s, i) ==
  IF i <= Len(s) /\ isDigit(s[i]) THEN SkipDigits(s, i + 1) ELSE i

\* the first index at or after i that holds no white space
RECURSIVE SkipWhiteSpace(_, _)
SkipWhiteSpace(s, i) ==
  IF i <= Len(s) /\ isWhiteSpace(s[i]) THEN SkipWhiteSpace(s, i + 1) ELSE i

\* the value of the digits s[i..j-1], 0 for none
RECURSIVE DigitsValue(_, _, _)
DigitsValue(s, i, j) ==
  IF j <= i THEN 0 ELSE 10 * DigitsValue(s, i, j - 1) + DigitVal(s[j - 1])

RECURSIVE Pow10(_)
Pow10(e) == IF e = 0 THEN 1 ELSE 10 * Pow10(e - 1)

InfinityStr == <<"I", "n", "f", "i", "n", "i", "t", "y">>

\* the string p occurs in s at index i
StartsWithAt(s, i, p) ==
  /\ Len(s) >= i + Len(p) - 1
  /\ \A j \in 1..Len(p) : s[i + j - 1] = p[j]

\* parseFloat(str): the longest prefix of the trimmed string that is a decimal
\* literal (sign, digits, fraction, exponent) or a signed "Infinity"
parseFloat(str) ==
  LET i0   == SkipWhiteSpace(str, 1)
      neg  == CharAt(str, i0) = "-"
      i1   == IF CharAt(str, i0) \in {"-", "+"} THEN i0 + 1 ELSE i0
      i2   == SkipDigits(str, i1)
      dot  == CharAt(str, i2) = "."
      i3   == IF dot THEN SkipDigits(str, i2 + 1) ELSE i2
      nInt == i2 - i1
      nFrc == IF dot THEN i3 - (i2 + 1) ELSE 0
      hasE == CharAt(str, i3) \in {"e", "E"}
      e1   == IF CharAt(str, i3 + 1) \in {"-", "+"} THEN i3 + 2 ELSE i3 + 1
      e2   == SkipDigits(str, e1)
      expo == IF hasE /\ e2 > e1
                THEN (IF CharAt(str, i3 + 1) = "-" THEN -1 ELSE 1)
                       * DigitsValue(str, e1, e2)
                ELSE 0
      mant == DigitsValue(str, i1, i2) * Pow10(nFrc)
                + (IF dot THEN DigitsValue(str, i2 + 1, i3) ELSE 0)
      sgn  == IF neg THEN -1 ELSE 1
  IN  IF StartsWithAt(str, i1, InfinityStr)
        THEN (IF neg THEN NegInfinity ELSE Infinity)
      ELSE IF nInt + nFrc = 0 THEN NaN
      ELSE IF expo >= 0 THEN Rat(sgn * mant * Pow10(expo), Pow10(nFrc))
      ELSE Rat(sgn * mant, Pow10(nFrc) * Pow10(-expo))

\* str.trim()
RECURSIVE TrimEnd(_)
TrimEnd(s) ==
  IF s # <<>> /\ isWhiteSpace(s[Len(s)])
    THEN TrimEnd(SubSeq(s, 1, Len(s) - 1)) ELSE s

Trim(s) == TrimEnd(SubSeq(s, SkipWhiteSpace(s, 1), Len(s)))

\* the pattern /^-?\d*\.?\d+$/
MatchesNumberPattern(s) ==
  LET i1 == IF CharAt(s, 1) = "-" THEN 2 ELSE 1
      i2 == SkipDigits(s, i1)
  IN  IF i2 = Len(s) + 1 THEN i2 > i1
      ELSE /\ s[i2] = "."
           /\ SkipDigits(s, i2 + 1) = Len(s) + 1
           /\ Len(s) + 1 > i2 + 1

isValidNumber(str) ==
  LET t == Trim(str)
  IN  IF t = <<>> THEN FALSE
      ELSE MatchesNumberPattern(t) /\ ~isNaN(parseFloat(t))

\* the decimal digits of a natural number
RECURSIVE NatToStr(_)
NatToStr(n) ==
  IF n < 10 THEN <<Digits[n + 1]>>
  ELSE NatToStr(n \div 10) \o <<Digits[(n % 10) + 1]>>

\* x.toFixed(2): x rounded to the nearest hundredth, the larger one on a tie
toFixed2(x) ==
  IF isNaN(x) THEN <<"N", "a", "N">>
  ELSE IF x.k = "inf"
    THEN (IF x.n < 0 THEN <<"-">> ELSE <<>>) \o InfinityStr
  ELSE LET a == Abs(x.n)
           h == (200 * a + x.d) \div (2 * x.d)
           f == h % 100
       IN  (IF x.n < 0 THEN <<"-">> ELSE <<>>)
             \o NatToStr(h \div 100) \o <<".">>
             \o <<Digits[(f \div 10) + 1], Digits[(f % 10) + 1]>>

(***************************************************************************)
(* Rows, files and the values of the React state.                          *)
(***************************************************************************)
\* the header of the sampled files, in column order
ColumnOrder == <<"lat", "lon", "v", "h3Index">>

\* Object.keys(row)
ObjectKeys(row) == SelectSeq(ColumnOrder, LAMBDA c : c \in DOMAIN row)

RowA == [lat |-> <<"1">>, lon |-> <<"1">>, v |-> <<"3">>]

RowB == [lat |-> <<"1", ".", "5">>, lon |-> <<"1">>, v |-> <<"-", "1">>,
         h3Index |-> <<"8", "f">>]

RowC == [lat |-> <<"9">>, lon |-> <<"1">>, v |-> <<"x">>]

RowBadLat == [lat |-> <<"x">>, lon |-> <<"1">>, v |-> <<"2">>]

RowInfinity == [lat |-> InfinityStr, lon |-> <<"1">>, v |-> <<"2">>]

RowShort == [lat |-> <<"2">>]

\* the rows a parsed file is made of: three with usable coordinates (one of
\* them a re-imported export row carrying an h3Index column, one with a
\* non-numeric value), one whose latitude does not parse, one whose latitude
\* is "Infinity", and a short row that has no `lon` field
SampleRows == {RowA, RowB, RowC, RowBadLat, RowInfinity, RowShort}

\* the strings that occur in the sampled rows
SampleStrings == UNION {{row[key] : key \in DOMAIN row} : row \in SampleRows}

\* parseFloat and isValidNumber on the sampled strings, evaluated once
parseFloatOf == [str \in SampleStrings |-> parseFloat(str)]

isValidNumberOf == [str \in SampleStrings |-> isValidNumber(str)]

\* parseFloat(row[key]); a missing key reads as undefined, which parses to NaN
parseFloatField(row, key) ==
  IF key \in DOMAIN row THEN parseFloatOf[row[key]] ELSE NaN

\* results.data of Papa.parse: the parsed files of at most MaxFileRows rows
\* imported from start-up (RowB is left to the datasets of LoadableFiles)
FileRows == SampleRows \ {RowB}

Files == UNION {[1..n -> FileRows] : n \in 0..MaxFileRows}

\* useState(7)
InitialResolution == 7

\* the slider positions tried (the slider ranges over 0..15)
Resolutions == {7, 14, 15}

aggregateFunctions == <<"sum", "mean", "median", "max", "min", "count">>

\* the values of the <select>: "Select function" and the six functions
SelectValues == {""} \cup {aggregateFunctions[i] : i \in 1..Len(aggregateFunctions)}

\* useState(null) / a stored array of rows
Null == [isNull |-> TRUE, rows |-> <<>>]

Loaded(rows) == [isNull |-> FALSE, rows |-> rows]

\* useState({})
EmptySettings == [c \in {} |-> ""]

\* no download and no alert in this step
NoExport == [done |-> FALSE, aggregate |-> FALSE, records |-> <<>>]

NoAlert == ""

(***************************************************************************)
(* The cell index.  h3.latLngToCell is an external library; it is modelled *)
(* as a deterministic grid whose cells halve in size with each resolution  *)
(* (half a degree at resolution 15), and it throws on a coordinate that is *)
(* not finite or a resolution outside 0..15.                               *)
(***************************************************************************)
RECURSIVE Pow2(_)
Pow2(e) == IF e = 0 THEN 1 ELSE 2 * Pow2(e - 1)

latLngToCellThrows(lat, lon, resolution) ==
  ~isFinite(lat) \/ ~isFinite(lon) \/ resolution \notin 0..15

latLngToCell(lat, lon, resolution) ==
  LET size == Pow2(15 - resolution)
  IN  [res |-> resolution,
       i   |-> (2 * lat.n) \div (lat.d * size),
       j   |-> (2 * lon.n) \div (lon.d * size)]

\* h3.latLngToCell(parseFloat(row.lat), parseFloat(row.lon), resolution)
rowCell(row, resolution) ==
  latLngToCell(parseFloatField(row, "lat"), parseFloatField(row, "lon"), resolution)

rowCellThrows(row, resolution) ==
  latLngToCellThrows(parseFloatField(row, "lat"), parseFloatField(row, "lon"),
                     resolution)

(***************************************************************************)
(* calculateH3CellStats                                                    *)
(***************************************************************************)
\* cellCounts after the forEach: the cells in insertion order with their counts
RECURSIVE cellCounts(_, _)
cellCounts(data, resolution) ==
  IF data = <<>> THEN <<>>
  ELSE LET before == cellCounts(SubSeq(data, 1, Len(data) - 1), resolution)
           cell   == rowCell(data[Len(data)], resolution)
       IN  IF \E p \in 1..Len(before) : before[p].cell = cell
             THEN [p \in 1..Len(before) |->
                     IF before[p].cell = cell
                       THEN [before[p] EXCEPT !.count = @ + 1] ELSE before[p]]
             ELSE Append(before, [cell |-> cell, count |-> 1])

\* counts.reduce((sum, count) => sum + count, 0)
RECURSIVE sumCounts(_)
sumCounts(counts) ==
  IF counts = <<>> THEN Num(0)
  ELSE Add(sumCounts(SubSeq(counts, 1, Len(counts) - 1)), counts[Len(counts)])

calculateH3CellStats(data, resolution) ==
  IF \E p \in 1..Len(data) : rowCellThrows(data[p], resolution)
    THEN [threw |-> TRUE, min |-> NaN, max |-> NaN, avg |-> <<>>]
  ELSE LET cc     == cellCounts(data, resolution)
           counts == [p \in 1..Len(cc) |-> Num(cc[p].count)]
           avg    == Div(sumCounts(counts), Num(Len(counts)))
       IN  [threw |-> FALSE, min |-> MathMin(counts), max |-> MathMax(counts),
            avg |-> toFixed2(avg)]

(***************************************************************************)
(* Rendering.  The JSX reads csvData[0].lat and the H3Cells and            *)
(* H3CellStatsReport components index every row; an exception there        *)
(* unmounts the application, after which no handler can run.               *)
(***************************************************************************)
renderThrows(data, resolution) ==
  /\ ~data.isNull
  /\ \/ Len(data.rows) = 0
     \/ \E p \in 1..Len(data.rows) : rowCellThrows(data.rows[p], resolution)

(***************************************************************************)
(* onDrop: the `complete` callback of Papa.parse                           *)
(***************************************************************************)
\* results.data.filter(row => !isNaN(parseFloat(row.lat)) && !isNaN(parseFloat(row.lon)))
validData(results) ==
  SelectSeq(results, LAMBDA row : /\ ~isNaN(parseFloatField(row, "lat"))
                                  /\ ~isNaN(parseFloatField(row, "lon")))

\* mutation of hasLatLonColumns: the `lon` test forgotten
hasLatLonColumns_LatOnly(results) ==
  /\ Len(results) > 0
  /\ "lat" \in DOMAIN results[1]

\* results.data.length > 0 && results.data[0].hasOwnProperty('lat') && ...('lon')
hasLatLonColumns(results) ==
  /\ Len(results) > 0
  /\ "lat" \in DOMAIN results[1]
  /\ "lon" \in DOMAIN results[1]

\* the two nested conditions under which the callback stores the file
importAccepted(results) ==
  hasLatLonColumns(results) /\ Len(validData(results)) > 0

\* Object.keys(validData[0]).filter(key => key !== 'lat' && key !== 'lon' && isValidNumber(...))
numCols(row) ==
  SelectSeq(ObjectKeys(row), LAMBDA key : /\ key # "lat"
                                          /\ key # "lon"
                                          /\ isValidNumberOf[row[key]])

AlertNoValidPairs == "No valid lat/lon pairs found in the CSV"

AlertMissingColumns == "CSV must contain at least \"lat\" and \"lon\" columns"

onDrop(file) ==
  /\ ~crashed
  /\ IF importAccepted(file)
       THEN LET valid == validData(file)
            IN  /\ csvData' = Loaded(valid)
                /\ mapCenter' = <<parseFloatField(valid[1], "lat"),
                                  parseFloatField(valid[1], "lon")>>
                /\ numericColumns' = numCols(valid[1])
                /\ alertMsg' = NoAlert
       ELSE /\ alertMsg' = IF hasLatLonColumns(file) THEN AlertNoValidPairs
                                                    ELSE AlertMissingColumns
            /\ UNCHANGED <<csvData, mapCenter, numericColumns>>
  /\ exportData' = NoExport
  /\ crashed' = renderThrows(csvData', h3Resolution)
  /\ UNCHANGED <<h3Resolution, includeCoordinates, aggregationSettings,
                 showAggregationSettings>>

(***************************************************************************)
(* removePoint                                                             *)
(***************************************************************************)
\* mutation of splice1: newData.pop() in place of newData.splice(index, 1)
splice1_Pop(prevData, index) == SubSeq(prevData, 1, Len(prevData) - 1)

\* newData = [...prevData]; newData.splice(index, 1)  (index is 0-based)
splice1(prevData, index) ==
  SubSeq(prevData, 1, index) \o SubSeq(prevData, index + 2, Len(prevData))

\* the button of the marker of row `index`; a marker is drawn for every row
\* whose coordinates are not NaN
removePoint(index) ==
  /\ ~crashed
  /\ ~csvData.isNull
  /\ index \in 0..(Len(csvData.rows) - 1)
  /\ ~isNaN(parseFloatField(csvData.rows[index + 1], "lat"))
  /\ ~isNaN(parseFloatField(csvData.rows[index + 1], "lon"))
  /\ csvData' = Loaded(splice1(csvData.rows, index))
  /\ alertMsg' = NoAlert
  /\ exportData' = NoExport
  /\ crashed' = renderThrows(csvData', h3Resolution)
  /\ UNCHANGED <<h3Resolution, includeCoordinates, mapCenter, numericColumns,
                 aggregationSettings, showAggregationSettings>>

(***************************************************************************)
(* The controls shown once a dataset is loaded                             *)
(***************************************************************************)
\* onChange of the range input: setH3Resolution(parseInt(e.target.value))
setH3Resolution(value) ==
  /\ ~crashed
  /\ ~csvData.isNull
  /\ h3Resolution' = value
  /\ alertMsg' = NoAlert
  /\ exportData' = NoExport
  /\ crashed' = renderThrows(csvData, h3Resolution')
  /\ UNCHANGED <<csvData, includeCoordinates, mapCenter, numericColumns,
                 aggregationSettings, showAggregationSettings>>

\* onChange of the check box: setIncludeCoordinates(e.target.checked)
setIncludeCoordinates ==
  /\ ~crashed
  /\ ~csvData.isNull
  /\ includeCoordinates' = ~includeCoordinates
  /\ alertMsg' = NoAlert
  /\ exportData' = NoExport
  /\ UNCHANGED <<csvData, h3Resolution, mapCenter, numericColumns,
                 aggregationSettings, showAggregationSettings, crashed>>

\* onClick: setShowAggregationSettings(!showAggregationSettings)
toggleAggregationSettings ==
  /\ ~crashed
  /\ ~csvData.isNull
  /\ showAggregationSettings' = ~showAggregationSettings
  /\ alertMsg' = NoAlert
  /\ exportData' = NoExport
  /\ UNCHANGED <<csvData, h3Resolution, includeCoordinates, mapCenter,
                 numericColumns, aggregationSettings, crashed>>

\* onChange of a column's <select>:
\* setAggregationSettings(prev => ({ ...prev, [column]: e.target.value }))
selectAggregation(column, value) ==
  /\ ~crashed
  /\ ~csvData.isNull
  /\ showAggregationSettings
  /\ \E p \in 1..Len(numericColumns) : numericColumns[p] = column
  /\ aggregationSettings' = (column :> value) @@ aggregationSettings
  /\ alertMsg' = NoAlert
  /\ exportData' = NoExport
  /\ UNCHANGED <<csvData, h3Resolution, includeCoordinates, mapCenter,
                 numericColumns, showAggregationSettings, crashed>>

(***************************************************************************)
(* exportCsv                                                               *)
(***************************************************************************)
\* mutation of grouped: a new group is put in front of the others
RECURSIVE grouped_NewestFirst(_, _)
grouped_NewestFirst(data, resolution) ==
  IF data = <<>> THEN <<>>
  ELSE LET before  == grouped_NewestFirst(SubSeq(data, 1, Len(data) - 1), resolution)
           row     == data[Len(data)]
           h3Index == rowCell(row, resolution)
       IN  IF \E p \in 1..Len(before) : before[p].h3Index = h3Index
             THEN [p \in 1..Len(before) |->
                     IF before[p].h3Index = h3Index
                       THEN [before[p] EXCEPT !.rows = Append(@, row)]
                       ELSE before[p]]
             ELSE <<[h3Index |-> h3Index, rows |-> <<row>>]>> \o before

\* `grouped` after the forEach: the groups in insertion order (the keys are
\* cell identifiers, never array indices, so Object.entries keeps that order)
RECURSIVE grouped(_, _)
grouped(data, resolution) ==
  IF data = <<>> THEN <<>>
  ELSE LET before  == grouped(SubSeq(data, 1, Len(data) - 1), resolution)
           row     == data[Len(data)]
           h3Index == rowCell(row, resolution)
       IN  IF \E p \in 1..Len(before) : before[p].h3Index = h3Index
             THEN [p \in 1..Len(before) |->
                     IF before[p].h3Index = h3Index
                       THEN [before[p] EXCEPT !.rows = Append(@, row)]
                       ELSE before[p]]
             ELSE Append(before, [h3Index |-> h3Index, rows |-> <<row>>])

\* values.reduce((a, b) => a + b, 0)
RECURSIVE sumValues(_)
sumValues(values) ==
  IF values = <<>> THEN Num(0)
  ELSE Add(sumValues(SubSeq(values, 1, Len(values) - 1)), values[Len(values)])

\* s with v inserted before the first element greater than v
RECURSIVE insertAscending(_, _)
insertAscending(s, v) ==
  IF s = <<>> THEN <<v>>
  ELSE IF Lt(v, Head(s)) THEN <<v>> \o s
  ELSE <<Head(s)>> \o insertAscending(Tail(s), v)

RECURSIVE sortAscending(_)
sortAscending(values) ==
  IF values = <<>> THEN <<>>
  ELSE insertAscending(sortAscending(SubSeq(values, 1, Len(values) - 1)),
                       values[Len(values)])

\* the positions 1..n in the order the permutation `order` ranks them
rankedPositions(n, order) ==
  CHOOSE q \in [1..n -> 1..n] :
    \A a, b \in 1..n : a < b => order[q[a]] < order[q[b]]

\* mutation of sortValues: the array is left in row order
sortValues_Unsorted(values, order) == values

\* values.sort((a, b) => a - b).  The comparator is consistent unless a value
\* is NaN (a - b is then NaN); the order is then implementation-defined, and
\* `order` is the arrangement the engine happens to produce.
sortValues(values, order) ==
  IF \E p \in 1..Len(values) : isNaN(values[p])
    THEN LET q == rankedPositions(Len(values), order)
         IN  [p \in 1..Len(values) |-> values[q[p]]]
    ELSE sortAscending(values)

\* case 'median'
median(values, order) ==
  LET sorted == sortValues(values, order)
      mid    == Len(sorted) \div 2
  IN  IF Len(sorted) % 2 # 0 THEN sorted[mid + 1]
      ELSE Div(Add(sorted[mid], sorted[mid + 1]), Num(2))

\* the switch on func; `aggregated` is returned as it was when no case matches
aggregateColumn(aggregated, column, func, values, order) ==
  CASE func = "sum"    -> (column :> sumValues(values)) @@ aggregated
    [] func = "mean"   -> (column :> Div(sumValues(values), Num(Len(values))))
                            @@ aggregated
    [] func = "median" -> (column :> median(values, order)) @@ aggregated
    [] func = "max"    -> (column :> MathMax(values)) @@ aggregated
    [] func = "min"    -> (column :> MathMin(values)) @@ aggregated
    [] func = "count"  -> (column :> Num(Len(values))) @@ aggregated
    [] OTHER           -> aggregated

\* numericColumns.forEach(column => { const func = aggregationSettings[column];
\*                                    if (func) { ... } })
RECURSIVE aggregateColumns(_, _, _, _, _)
aggregateColumns(aggregated, columns, settings, rows, order) ==
  IF columns = <<>> THEN aggregated
  ELSE LET column == Head(columns)
           func   == IF column \in DOMAIN settings THEN settings[column] ELSE ""
           values == [p \in 1..Len(rows) |-> parseFloatField(rows[p], column)]
       IN  aggregateColumns(
             IF func # ""
               THEN aggregateColumn(aggregated, column, func, values, order)
               ELSE aggregated,
             Tail(columns), settings, rows, order)

\* Object.entries(grouped).map(([h3Index, rows]) => ...)
aggregatedRecords(data, resolution, columns, settings, order) ==
  LET g == grouped(data, resolution)
  IN  [p \in 1..Len(g) |->
         aggregateColumns([h3Index |-> g[p].h3Index], columns, settings,
                          g[p].rows, order)]

\* mutation of newRow: the coordinates are deleted whatever the flag says
newRow_AlwaysDeletes(row, resolution, include) ==
  LET withIndex == ("h3Index" :> rowCell(row, resolution)) @@ row
  IN  [key \in (DOMAIN withIndex) \ {"lat", "lon"} |-> withIndex[key]]

\* newRow = { ...row, h3Index }; the two deletes when coordinates are excluded
newRow(row, resolution, include) ==
  LET withIndex == ("h3Index" :> rowCell(row, resolution)) @@ row
  IN  IF ~include
        THEN [key \in (DOMAIN withIndex) \ {"lat", "lon"} |-> withIndex[key]]
        ELSE withIndex

\* csvData.map(row => ...)
enrichedRecords(data, resolution, include) ==
  [p \in 1..Len(data) |-> newRow(data[p], resolution, include)]

\* mutation of exportCsv: the enriched record is the stored row itself
\* (newRow = row), so the deletes reach the stored rows
exportCsv_Aliased(aggregate, order) ==
  /\ ~crashed
  /\ ~csvData.isNull
  /\ aggregate => showAggregationSettings
  /\ exportData' =
       [done |-> TRUE, aggregate |-> aggregate,
        records |-> IF aggregate
                      THEN aggregatedRecords(csvData.rows, h3Resolution,
                                             numericColumns, aggregationSettings,
                                             order)
                      ELSE enrichedRecords(csvData.rows, h3Resolution,
                                           includeCoordinates)]
  /\ csvData' = IF aggregate THEN csvData
                ELSE Loaded([p \in 1..Len(csvData.rows) |->
                        [key \in DOMAIN exportData'.records[p] |->
                           exportData'.records[p][key]]])
  /\ alertMsg' = NoAlert
  /\ UNCHANGED <<h3Resolution, includeCoordinates, mapCenter,
                 numericColumns, aggregationSettings, showAggregationSettings,
                 crashed>>

\* the two export buttons; the aggregated one is shown with the settings
\* panel.  exportData is what is handed to Papa.unparse.
exportCsv(aggregate, order) ==
  /\ ~crashed
  /\ ~csvData.isNull
  /\ aggregate => showAggregationSettings
  /\ exportData' =
       [done |-> TRUE, aggregate |-> aggregate,
        records |-> IF aggregate
                      THEN aggregatedRecords(csvData.rows, h3Resolution,
                                             numericColumns, aggregationSettings,
                                             order)
                      ELSE enrichedRecords(csvData.rows, h3Resolution,
                                           includeCoordinates)]
  /\ alertMsg' = NoAlert
  /\ UNCHANGED <<csvData, h3Resolution, includeCoordinates, mapCenter,
                 numericColumns, aggregationSettings, showAggregationSettings,
                 crashed>>

(***************************************************************************)
(* Specifications                                                          *)
(***************************************************************************)
\* the state after construction (the useState initial values)
Init ==
  /\ csvData = Null
  /\ h3Resolution = InitialResolution
  /\ includeCoordinates = TRUE
  /\ mapCenter = <<Num(0), Num(0)>>
  /\ numericColumns = <<>>
  /\ aggregationSettings = EmptySettings
  /\ showAggregationSettings = FALSE
  /\ alertMsg = NoAlert
  /\ exportData = NoExport
  /\ crashed = FALSE

Controls ==
  \/ \E value \in Resolutions : setH3Resolution(value)
  \/ setIncludeCoordinates
  \/ toggleAggregationSettings
  \/ \E column \in {"v"}, value \in SelectValues :
       selectAggregation(column, value)

\* the arrangements the engine's sort may produce for the arrays of this
\* export: one suffices when no array is sorted
sortOrders(aggregate) ==
  IF aggregate /\ \E column \in DOMAIN aggregationSettings :
                    aggregationSettings[column] = "median"
    THEN Permutations(1..Len(csvData.rows))
    ELSE {[p \in 1..Len(csvData.rows) |-> p]}

Export ==
  \E aggregate \in BOOLEAN :
    \E order \in sortOrders(aggregate) : exportCsv(aggregate, order)

Next ==
  \/ \E file \in Files : onDrop(file)
  \/ \E index \in 0..(MaxFileRows - 1) : removePoint(index)
  \/ Controls
  \/ Export

\* the application from start-up, importing files of at most MaxFileRows rows
Spec == Init /\ [][Next]_vars

\* the files of at most MaxRows rows that import to a dataset that renders
LoadableFiles ==
  {file \in UNION {[1..n -> SampleRows] : n \in 1..MaxRows} :
     importAccepted(file) /\ ~renderThrows(Loaded(validData(file)), InitialResolution)}

\* the states right after the first import of such a file
InitLoaded ==
  \E file \in LoadableFiles :
    /\ csvData = Loaded(validData(file))
    /\ h3Resolution = InitialResolution
    /\ includeCoordinates = TRUE
    /\ mapCenter = <<parseFloatField(validData(file)[1], "lat"),
                     parseFloatField(validData(file)[1], "lon")>>
    /\ numericColumns = numCols(validData(file)[1])
    /\ aggregationSettings = EmptySettings
    /\ showAggregationSettings = FALSE
    /\ alertMsg = NoAlert
    /\ exportData = NoExport
    /\ crashed = FALSE

NextLoaded ==
  \/ \E index \in 0..(MaxRows - 1) : removePoint(index)
  \/ Controls
  \/ Export

\* the application with a dataset of at most MaxRows rows loaded: the
\* controls, the removals and the exports
SpecLoaded == InitLoaded /\ [][NextLoaded]_vars

(***************************************************************************)
(* Properties                                                              *)
(***************************************************************************)
rows == csvData.rows

records == exportData.records

hasKey(object, key) == key \in DOMAIN object

\* the column has a function configured (a key of the settings whose value
\* is not the empty string)
configured(column) ==
  hasKey(aggregationSettings, column) /\ aggregationSettings[column] # ""

\* C1: a file is rejected when it has no first row with both a `lat` and a
\* `lon` key, or when no row of it has a lat and a lon that parse
Rejected(file) ==
  \/ Len(file) = 0
  \/ ~hasKey(file[1], "lat")
  \/ ~hasKey(file[1], "lon")
  \/ \A p \in 1..Len(file) : \/ isNaN(parseFloatField(file[p], "lat"))
                             \/ isNaN(parseFloatField(file[p], "lon"))

RejectedFiles == {file \in Files : Rejected(file)}

\* C1: the import of a rejected file reports an error and leaves the stored
\* rows, the numeric columns, the aggregation settings, the resolution and
\* the includeCoordinates flag as they were, whatever the state before: in
\* no state can such an import take a step that does otherwise.
C1_RejectedImportKeepsState ==
  \A file \in RejectedFiles :
    ~ENABLED (/\ onDrop(file)
              /\ ~(/\ alertMsg' # NoAlert
                   /\ UNCHANGED <<csvData, numericColumns, aggregationSettings,
                                  h3Resolution, includeCoordinates>>))

\* C1 (witness): an error has just been reported while a dataset imported
\* earlier and a configured aggregation function are still in place
C1_Witness ==
  /\ alertMsg # NoAlert
  /\ ~csvData.isNull
  /\ configured("v")
  /\ ~includeCoordinates
  /\ h3Resolution # InitialResolution

\* C2: after every successful import the aggregation settings are empty, and
\* they change only by an import or by a selection in the settings panel.
C2_SettingsResetOnImport ==
  [][/\ \A file \in Files :
          (onDrop(file) /\ importAccepted(file))
            => aggregationSettings' = EmptySettings
     /\ aggregationSettings' # aggregationSettings
          => \/ \E file \in Files : onDrop(file) /\ importAccepted(file)
             \/ \E value \in SelectValues : selectAggregation("v", value)]_vars

\* C3: every stored row is valid: its lat and its lon parse as finite numbers.
C3_StoredRowsAreFinite ==
  ~csvData.isNull =>
    \A p \in 1..Len(rows) : /\ isFinite(parseFloatField(rows[p], "lat"))
                            /\ isFinite(parseFloatField(rows[p], "lon"))

\* the fields an enriched record takes from its row
keptKeys(row) ==
  (DOMAIN row) \ ({"h3Index"} \cup (IF includeCoordinates THEN {} ELSE {"lat", "lon"}))

\* C4: an enriched export holds one record per stored row, in row order;
\* record p has h3Index = the cell of row p at the current resolution and the
\* other fields of row p with their values; it has `lat` and `lon` exactly
\* when includeCoordinates is true.
C4_EnrichedExport ==
  (exportData.done /\ ~exportData.aggregate) =>
    /\ Len(records) = Len(rows)
    /\ \A p \in 1..Len(rows) :
         /\ DOMAIN records[p] = keptKeys(rows[p]) \cup {"h3Index"}
         /\ records[p]["h3Index"] = rowCell(rows[p], h3Resolution)
         /\ \A key \in keptKeys(rows[p]) : records[p][key] = rows[p][key]
         /\ hasKey(records[p], "lat") <=> includeCoordinates
         /\ hasKey(records[p], "lon") <=> includeCoordinates

\* C4 (witness): an enriched export without coordinates of several rows, one
\* of which already carried an h3Index column
C4_Witness ==
  /\ exportData.done
  /\ ~exportData.aggregate
  /\ ~includeCoordinates
  /\ Len(rows) >= 2
  /\ \E p \in 1..Len(rows) : hasKey(rows[p], "h3Index")
  /\ \E p \in 1..Len(rows) : ~hasKey(rows[p], "h3Index")

\* the positions of the rows that are the first of their cell
firstOfCell ==
  {p \in 1..Len(rows) :
     \A q \in 1..(p - 1) :
       rowCell(rows[q], h3Resolution) # rowCell(rows[p], h3Resolution)}

\* the k-th smallest element of a set of positions
kth(positions, k) ==
  CHOOSE p \in positions : Cardinality({q \in positions : q < p}) = k - 1

\* C5: an aggregated export holds one record per distinct cell of the stored
\* rows, ordered by the position of the first row of each cell; the fields of
\* each record are h3Index and the numeric columns with a configured function.
C5_AggregatedExport ==
  (exportData.done /\ exportData.aggregate) =>
    /\ Len(records) = Cardinality({rowCell(rows[p], h3Resolution) : p \in 1..Len(rows)})
    /\ Len(records) = Cardinality(firstOfCell)
    /\ \A k \in 1..Len(records) :
         /\ records[k]["h3Index"] = rowCell(rows[kth(firstOfCell, k)], h3Resolution)
         /\ DOMAIN records[k] =
              {"h3Index"} \cup {numericColumns[c] : c \in {c \in 1..Len(numericColumns) :
                                                           configured(numericColumns[c])}}

\* C5 (witness): an aggregated export of two cells whose first-seen order is
\* not the order of their identifiers, with a function configured for `v`
C5_Witness ==
  /\ exportData.done
  /\ exportData.aggregate
  /\ Len(records) = 2
  /\ records[1]["h3Index"].i > records[2]["h3Index"].i
  /\ Len(rows) = 3
  /\ hasKey(records[1], "v")

\* the positions of the rows of the cell of record k, and their values of a
\* column in row order
groupPositions(k) ==
  {p \in 1..Len(rows) : rowCell(rows[p], h3Resolution) = records[k]["h3Index"]}

groupValues(k, column) ==
  [a \in 1..Cardinality(groupPositions(k)) |->
     parseFloatField(rows[kth(groupPositions(k), a)], column)]

hasNaN(values) == \E a \in 1..Len(values) : isNaN(values[a])

\* the rearrangements of a sequence
arrangements(values) ==
  {[a \in 1..Len(values) |-> values[perm[a]]] : perm \in Permutations(1..Len(values))}

ascending(values) ==
  \A a \in 1..(Len(values) - 1) : ~Lt(values[a + 1], values[a])

\* the middle element of an odd-length sequence, the average of the two
\* middle elements of an even-length one
middle(values) ==
  IF Len(values) % 2 = 1 THEN values[(Len(values) + 1) \div 2]
  ELSE Div(Add(values[Len(values) \div 2], values[(Len(values) \div 2) + 1]), Num(2))

RECURSIVE total(_)
total(values) == IF values = <<>> THEN Num(0) ELSE Add(Head(values), total(Tail(values)))

\* the value the function named func has on the values: the sum, the sum
\* divided by the number of values, the middle of the ascending arrangement
\* (of some arrangement when a value is NaN, whose position in the order is
\* unspecified), the extrema (NaN when a value is NaN), the number of values
isAggregateOf(result, func, values) ==
  CASE func = "sum"    -> result = total(values)
    [] func = "mean"   -> result = Div(total(values), Num(Len(values)))
    [] func = "median" ->
         \E sorted \in arrangements(values) :
           /\ hasNaN(values) \/ ascending(sorted)
           /\ result = middle(sorted)
    [] func = "max"    ->
         IF hasNaN(values) THEN isNaN(result)
         ELSE /\ \E a \in 1..Len(values) : values[a] = result
              /\ \A a \in 1..Len(values) : ~Lt(result, values[a])
    [] func = "min"    ->
         IF hasNaN(values) THEN isNaN(result)
         ELSE /\ \E a \in 1..Len(values) : values[a] = result
              /\ \A a \in 1..Len(values) : ~Lt(values[a], result)
    [] func = "count"  -> result = Num(Len(values))

\* C6: in an aggregated export, the value of every configured column in every
\* record is the configured function of the values of that column in the
\* rows of the record's cell, taken in row order; count is the number of
\* those rows whether or not their values parse.
C6_AggregatedValues ==
  (exportData.done /\ exportData.aggregate) =>
    \A k \in 1..Len(records) :
      \A c \in 1..Len(numericColumns) :
        configured(numericColumns[c]) =>
          /\ Len(groupValues(k, numericColumns[c])) = Cardinality(groupPositions(k))
          /\ isAggregateOf(records[k][numericColumns[c]],
                           aggregationSettings[numericColumns[c]],
                           groupValues(k, numericColumns[c]))

\* C6 (witness): the median of a cell of three rows whose values all parse
\* and are not in ascending order
C6_Witness ==
  /\ exportData.done
  /\ exportData.aggregate
  /\ configured("v")
  /\ aggregationSettings["v"] = "median"
  /\ \E k \in 1..Len(records) :
       /\ Len(groupValues(k, "v")) = 3
       /\ ~hasNaN(groupValues(k, "v"))
       /\ ~ascending(groupValues(k, "v"))
       /\ hasKey(records[k], "v")

\* the cells of the stored rows and the number of rows in a cell
cellsOfRows == {rowCell(rows[p], h3Resolution) : p \in 1..Len(rows)}

rowsInCell(cell) ==
  Cardinality({p \in 1..Len(rows) : rowCell(rows[p], h3Resolution) = cell})

\* the occupancy report is that of a partition of the rows into cells
reportOfPartition(report) ==
  /\ ~report.threw
  /\ \E cell \in cellsOfRows :
       /\ report.min = Num(rowsInCell(cell))
       /\ \A other \in cellsOfRows : rowsInCell(cell) <= rowsInCell(other)
  /\ \E cell \in cellsOfRows :
       /\ report.max = Num(rowsInCell(cell))
       /\ \A other \in cellsOfRows : rowsInCell(cell) >= rowsInCell(other)
  /\ sumCounts([p \in 1..Len(cellCounts(rows, h3Resolution)) |->
                  Num(cellCounts(rows, h3Resolution)[p].count)]) = Num(Len(rows))
  /\ report.avg = toFixed2(Div(Num(Len(rows)), Num(Cardinality(cellsOfRows))))
  /\ ~isNaN(parseFloat(report.avg))
  /\ ~Lt(parseFloat(report.avg), report.min)
  /\ ~Lt(report.max, parseFloat(report.avg))

\* C7: for any stored row set and resolution the occupancy report is that of
\* a partition of the rows by cell: the counts sum to the number of rows, min
\* and max are the smallest and largest count, avg is rows / cells to two
\* decimals, and min <= avg <= max.
C7_OccupancyReport ==
  ~csvData.isNull => reportOfPartition(calculateH3CellStats(rows, h3Resolution))

\* C7 restricted to the states in which the report is rendered
OccupancyReportWhenRendered ==
  (~csvData.isNull /\ ~crashed) =>
    reportOfPartition(calculateH3CellStats(rows, h3Resolution))

\* C8: removePoint(index) removes exactly the row at that index: the
\* collection is one row shorter, the rows before the index stay where they
\* are and the rows after it move up by one.
C8_RemovePoint ==
  [][\A index \in 0..(MaxRows - 1) :
       removePoint(index) =>
         /\ ~csvData'.isNull
         /\ Len(csvData'.rows) = Len(rows) - 1
         /\ \A p \in 1..index : csvData'.rows[p] = rows[p]
         /\ \A p \in (index + 1)..Len(csvData'.rows) : csvData'.rows[p] = rows[p + 1]]_vars

\* C8 (witness): the first row of a dataset of several rows has been removed
\* (the map centre is still that of the import, the first row is another)
C8_Witness ==
  /\ ~csvData.isNull
  /\ Len(rows) >= 2
  /\ mapCenter # <<parseFloatField(rows[1], "lat"), parseFloatField(rows[1], "lon")>>
  /\ rows[1] # rows[2]

\* C9: a step that exports, or that changes the resolution, the
\* includeCoordinates flag or the aggregation settings, changes neither the
\* stored rows nor the numeric columns (so only an import or a removal
\* changes the rows), a removal leaves the numeric columns as they are, and
\* every stored row carries `lat` and `lon`.
C9_OnlyImportAndRemovalChangeRows ==
  /\ [](\A p \in 1..Len(rows) : hasKey(rows[p], "lat") /\ hasKey(rows[p], "lon"))
  /\ [][/\ (\/ exportData'.done
            \/ h3Resolution' # h3Resolution
            \/ includeCoordinates' # includeCoordinates
            \/ aggregationSettings' # aggregationSettings)
             => UNCHANGED <<csvData, numericColumns>>
         /\ \A index \in 0..(Len(rows) - 1) :
              removePoint(index) => UNCHANGED numericColumns]_vars

\* C9 (witness): an export that excluded the coordinates has just been made
\* and the stored rows still carry them
C9_Witness ==
  /\ exportData.done
  /\ ~exportData.aggregate
  /\ ~includeCoordinates
  /\ Len(rows) >= 1
  /\ \A p \in 1..Len(records) : ~hasKey(records[p], "lat") /\ hasKey(rows[p], "lat")

\* C10: the stored row collection is absent or holds at least one row.
C10_StoredRowsNotEmpty ==
  csvData.isNull \/ Len(rows) >= 1
====
